---- MODULE Spec2Model ----
(***************************************************************************)
(* IgeNetIoClient: the client-side net.io component of the engine.         *)
(* Command negotiation (handshake), dispatch of inbound frames and the     *)
(* request / response correlation, modelled from                           *)
(* src/engine/components/network/net.io/IgeNetIoClient.js.                 *)
(*                                                                         *)
(* Every public method and every listener registered by start() is one     *)
(* action.  Besides the fields of the client, the model keeps what one     *)
(* call did to the outside world (frames handed to the socket, events      *)
(* emitted, callbacks invoked, log lines, the exception that left the      *)
(* call) in `out`, the call and its arguments in `op`, and the number of   *)
(* times each callback has been invoked so far in `fired`.  `declared`,    *)
(* `issued` and `inbound` record the history the properties speak about;   *)
(* no action reads them.                                                   *)
(***************************************************************************)
EXTENDS Integers, Sequences, FiniteSets, TLC

VARIABLES
    _initDone,               \* line 6
    _idCounter,              \* line 7
    _requests,               \* line 8: id -> request object
    _startCallback,          \* line 19
    _io,                     \* line 28: the NetIo.Client and its listeners
    _networkCommandsLookup,  \* name -> index (line 46)
    _networkCommandsIndex,   \* index -> name (line 51)
    _networkCommands,        \* name -> handler (line 99)
    op,                      \* the last call and its arguments
    out,                     \* what the last call did to the outside world
    fired,                   \* callback -> number of invocations so far
    declared,                \* the ncmds of the first init frame received
    issued,                  \* ids of the outstanding requests that request()
                             \* made after the handshake
    inbound                  \* id -> cmd of the requests received from the
                             \* server after the handshake and not answered

vars == <<_initDone, _idCounter, _requests, _startCallback, _io,
          _networkCommandsLookup, _networkCommandsIndex, _networkCommands,
          op, out, fired, declared, issued, inbound>>

----------------------------------------------------------------------------
(* Bounds *)

\* request() is called at most this many times
MaxRequests == 2

----------------------------------------------------------------------------
(* Values *)

\* the JavaScript value undefined
Undefined == "undefined"

\* the reserved command names
IgeRequest == "_igeRequest"
IgeResponse == "_igeResponse"

\* the values the sum of the four random draws of newIdHex (line 188) takes:
\* two neighbouring values stand for the range of the draws
RandomSums == {0, 1}

\* command names used by callers and servers
CommandNames == {IgeRequest, IgeResponse, "move", "chat"}

\* handlers a caller passes to define()
UserHandlers == {"h1"}

\* the continuation the application passes to its n-th call of request()
Continuation(n) == "k" \o ToString(n)
Continuations == {Continuation(n) : n \in 1..MaxRequests}

\* the arguments of the calls of define(): a declared or undeclared name
\* with a handler, and the calls that leave an argument out
DefineCalls ==
    {<<n, h>> : n \in {"move", "chat"}, h \in UserHandlers}
      \cup {<<Undefined, "h1">>, <<"move", Undefined>>, <<Undefined, Undefined>>}

\* the callback passed to start()
OnReady == "onReady"

Callbacks == Continuations \cup {OnReady}

\* ncmds of an init frame, in the key order of the decoded object:
\* a sequence of <<name, index>> with pairwise different names
\* NcmdsFull declares the reserved commands; NcmdsNoRpc does not, and gives
\* one index to two names
NcmdsFull == << <<IgeRequest, 0>>, <<IgeResponse, 1>>, <<"move", 2>> >>
NcmdsNoRpc == << <<"move", 1>>, <<"chat", 1>> >>
NcmdsChoices == {NcmdsFull, NcmdsNoRpc}

\* indices an ordinary frame may carry
FrameIndices == 0..3

\* an empty object {} / an empty array []
Empty == << >>

Put(f, k, v) == [x \in (DOMAIN f) \cup {k} |-> IF x = k THEN v ELSE f[x]]
Delete(f, k) == [x \in (DOMAIN f) \ {k} |-> f[x]]

\* Number.prototype.toString(16) on a non-negative integer
HexDigit == [d \in 0..15 |->
              IF d < 10 THEN ToString(d)
              ELSE <<"a", "b", "c", "d", "e", "f">>[d - 9]]
RECURSIVE toString16(_)
toString16(n) == IF n < 16 THEN HexDigit[n]
                 ELSE toString16(n \div 16) \o HexDigit[n % 16]

\* newIdHex, lines 186-189: the id returned when the counter is `counter`
\* before the call and the four random draws add up to `rand`
newIdHex(counter, rand) == toString16((counter + 1) + rand)

\* ids that frames from the server may carry
WireIds == {newIdHex(c, r) : c \in 0..(MaxRequests - 1), r \in RandomSums}

\* a payload (data[1] of a frame, or the data of a call) read through its
\* properties id, cmd and data; a property the value lacks reads undefined
Payload(i, c, d) == [id |-> i, cmd |-> c, data |-> d]
PlainPayload == Payload(Undefined, Undefined, "d1")
NoPayload == Payload(Undefined, Undefined, Undefined)
\* the response envelopes a server sends
ResponseEnvelopes == {Payload(i, "chat", "ok") : i \in WireIds}

\* the request envelopes a server sends: the server picks the ids of its
\* own requests, and may pick one that the client has generated as well
ServerRequestIds == {toString16(2)}
RequestEnvelopes == {Payload(i, "chat", "hi") : i \in ServerRequestIds}

\* what one call did to the outside world
NoOut == [sent |-> << >>, emitted |-> << >>, invoked |-> << >>,
          logged |-> << >>, raised |-> "none"]

NoOp == [fn |-> "none", name |-> Undefined, idx |-> -1, id |-> Undefined,
         cb |-> Undefined, payload |-> NoPayload, ncmds |-> << >>]

Call(f) == [NoOp EXCEPT !.fn = f]

----------------------------------------------------------------------------
(* State after construction *)

\* the three command tables are created empty by the component that mixes
\* this object in
HostTables ==
    /\ _networkCommandsLookup = Empty
    /\ _networkCommandsIndex = Empty
    /\ _networkCommands = Empty

\* the global scopes a message may be handled in: the names socket (line
\* 195) and commandName (line 212) are declared nowhere in the file, so a
\* read of either raises a ReferenceError unless the page defines a global
\* of that name at that moment.  Each name is read by one handler only; a
\* scope with neither and a scope with both cover both outcomes of each read
Pages == {{}, {"socket", "commandName"}}

Init ==
    /\ _initDone = FALSE
    /\ _idCounter = 0
    /\ _requests = Empty
    /\ _startCallback = Undefined
    /\ _io = "none"
    /\ HostTables
    /\ op = NoOp
    /\ out = NoOut
    /\ fired = [c \in Callbacks |-> 0]
    /\ declared = << >>
    /\ issued = {}
    /\ inbound = Empty

----------------------------------------------------------------------------
(* Records the model writes to `out` *)

Frame(i, p) == [index |-> i, payload |-> p]
Event(n, p) == [event |-> n, args |-> p]
Invocation(f, self, p, a) == [fn |-> f, this |-> self, payload |-> p, args |-> a]

\* a request object: the timestamp of line 140 is written and never read,
\* and is left out
RequestObject(i, c, d, k) == [id |-> i, cmd |-> c, data |-> d, callback |-> k]

\* data[0] of a frame that is not an array (the init object): undefined,
\* which is no key of the reverse index
NoIndex == -1

InitFrame(n) == [cmd |-> "init", ncmds |-> n, idx |-> NoIndex, payload |-> NoPayload]
OrdinaryFrame(i, p) == [cmd |-> Undefined, ncmds |-> << >>, idx |-> i, payload |-> p]

\* the array frames a server sends: request envelopes under index 0 and
\* response envelopes under index 1, which NcmdsFull gives to the reserved
\* commands, and a plain payload under the other indices
OrdinaryFrames ==
    {OrdinaryFrame(i, PlainPayload) : i \in FrameIndices \ {0, 1}}
      \cup {OrdinaryFrame(0, p) : p \in RequestEnvelopes}
      \cup {OrdinaryFrame(1, p) : p \in ResponseEnvelopes}

----------------------------------------------------------------------------
(* define, lines 95-108 *)

\* define without the check of line 98
defineBindsUnchecked(lookup, commandName, callback) ==
    commandName # Undefined /\ callback # Undefined

\* the condition under which line 99 runs
defineBinds(lookup, commandName, callback) ==
    /\ commandName # Undefined
    /\ callback # Undefined
    /\ commandName \in DOMAIN lookup

\* define without the assignment of line 98: the handler table is left as
\* it was
defineForgets(commands, lookup, commandName, callback) == commands

\* this._networkCommands after define(commandName, callback)
define(commands, lookup, commandName, callback) ==
    IF defineBinds(lookup, commandName, callback)
    THEN Put(commands, commandName, callback)
    ELSE commands

\* the log lines of define: lines 101 and 106
defineLog(lookup, commandName, callback) ==
    IF defineBinds(lookup, commandName, callback) THEN << >> ELSE <<"error">>

----------------------------------------------------------------------------
(* send, lines 116-124 *)

\* send without the check of line 119
sendUnchecked(lookup, commandName, data) ==
    << Frame(IF commandName \in DOMAIN lookup THEN lookup[commandName] ELSE NoIndex,
             data) >>

\* the frames send(commandName, data) hands to this._io.send
send(lookup, commandName, data) ==
    IF commandName \in DOMAIN lookup
    THEN << Frame(lookup[commandName], data) >>
    ELSE << >>

\* the log lines of send: line 122
sendLog(lookup, commandName) ==
    IF commandName \in DOMAIN lookup THEN << >> ELSE <<"error">>

----------------------------------------------------------------------------
(* The handlers of the two reserved commands *)

\* what a handler did: the request map it leaves, and its share of `out`
Effect(reqs, emitted, invoked, raised) ==
    [requests |-> reqs, emitted |-> emitted, invoked |-> invoked, raised |-> raised]

\* `this` inside a handler called at line 237: the call goes through the
\* member expression this._networkCommands[commandName], so the handler
\* runs with the handler table as its receiver, not the client
HandlerReceiver == "table"

\* whether this._requests is an object for the receiver `self`: the client
\* has the map of line 8, the handler table has no property _requests
\* (no command is named _requests)
HasRequests(self) == self = "client"

\* _onRequest, lines 191-199, run with receiver `self` on payload `data`
_onRequest(self, data, reqs, glob) ==
    IF "socket" \notin glob
    THEN \* line 195 reads the undeclared name socket
         Effect(reqs, << >>, << >>, "ReferenceError")
    ELSE IF ~HasRequests(self)
    THEN \* line 196 writes a property of undefined
         Effect(reqs, << >>, << >>, "TypeError")
    ELSE Effect(Put(reqs, data.id,
                    RequestObject(data.id, data.cmd, data.data, Undefined)),
                << Event(data.cmd, Payload(data.id, Undefined, data.data)) >>,
                << >>, "none")

\* _onResponse, lines 201-217, run with receiver `self` on payload `data`
_onResponse(self, data, reqs, glob) ==
    IF ~HasRequests(self)
    THEN \* line 208 reads a property of undefined
         Effect(reqs, << >>, << >>, "TypeError")
    ELSE IF data.id \notin DOMAIN reqs
    THEN Effect(reqs, << >>, << >>, "none")
    ELSE IF "commandName" \notin glob
    THEN \* line 212 reads the undeclared name commandName
         Effect(reqs, << >>, << >>, "ReferenceError")
    ELSE IF reqs[data.id].callback = Undefined
    THEN \* line 212 calls undefined
         Effect(reqs, << >>, << >>, "TypeError")
    ELSE Effect(Delete(reqs, data.id), << >>,
                << Invocation(reqs[data.id].callback, "request", NoPayload,
                              <<"window.commandName", data.data>>) >>,
                "none")

\* a handler bound with define() by the application: it is called with the
\* payload and returns
userHandler(h, self, data, reqs) ==
    Effect(reqs, << >>, << >>, "none")

\* the call of line 237: the handler is entered with the payload, then runs
invokeHandler(h, self, data, reqs, glob) ==
    LET e == IF h = "_onRequest" THEN _onRequest(self, data, reqs, glob)
             ELSE IF h = "_onResponse" THEN _onResponse(self, data, reqs, glob)
             ELSE userHandler(h, self, data, reqs)
    IN  [e EXCEPT !.invoked = << Invocation(h, self, data, << >>) >> \o @]

----------------------------------------------------------------------------
(* _onMessageFromServer, lines 233-241 *)

\* this._networkCommandsIndex[data[0]]
commandNameOf(index, d0) == IF d0 \in DOMAIN index THEN index[d0] ELSE Undefined

\* dispatch of a frame with data[0] = d0 and data[1] = d1
_onMessageFromServer(d0, d1, index, commands, reqs, glob) ==
    LET commandName == commandNameOf(index, d0)
        bound == commandName \in DOMAIN commands
        e == IF bound
             THEN invokeHandler(commands[commandName], HandlerReceiver, d1, reqs, glob)
             ELSE Effect(reqs, << >>, << >>, "none")
    IN  IF e.raised # "none"
        THEN \* the exception leaves line 237; line 240 is not reached
             e
        ELSE [e EXCEPT !.emitted = Append(@, Event(commandName, d1))]

----------------------------------------------------------------------------
(* start, lines 16-83, and the listeners it registers *)

\* lines 46: the decoded ncmds object as a mapping name -> index
lookupOf(ncmds) ==
    [n \in {ncmds[k][1] : k \in DOMAIN ncmds} |->
        ncmds[CHOOSE k \in DOMAIN ncmds : ncmds[k][1] = n][2]]

\* the loop of lines 49-54 left after its first pass: only the key at
\* position k gets its entry in the reverse index
fillReverseOnePass(index, ncmds, k) ==
    IF k > Len(ncmds) THEN index
    ELSE Put(index, ncmds[k][2], ncmds[k][1])

RECURSIVE fillReverse(_, _, _)
\* lines 49-54: index[lookup[i]] = i for the keys i of ncmds from position k
\* on, in key order
fillReverse(index, ncmds, k) ==
    IF k > Len(ncmds) THEN index
    ELSE fillReverse(Put(index, ncmds[k][2], ncmds[k][1]), ncmds, k + 1)

\* start(url, callback); webSocket: typeof(WebSocket) !== 'undefined'
start(callback, webSocket) ==
    /\ _io = "none"
    /\ _startCallback' = callback
    /\ _io' = IF webSocket THEN "open" ELSE "none"
    /\ op' = [Call("start") EXCEPT !.cb = callback]
    /\ out' = [NoOut EXCEPT !.logged = <<"info">>]
    /\ UNCHANGED <<_initDone, _idCounter, _requests, _networkCommandsLookup,
                   _networkCommandsIndex, _networkCommands, fired,
                   declared, issued, inbound>>

\* the init branch without the guard of line 37
isHandshakeUnguarded(initDone, data) == data.cmd = "init"

\* the init branch without the test of line 41: the first frame of any kind
\* is taken for the init frame
isHandshakeAnyFrame(initDone, data) == ~initDone

\* lines 37 and 41: the frame is the init frame of the handshake
isHandshake(initDone, data) == ~initDone /\ data.cmd = "init"

\* the call of the start() callback moved out of the handshake branch
startCallbackFiresAnywhere(handshake, startCallback) == startCallback # Undefined

\* line 63, inside the handshake branch: the start() callback is called
startCallbackFires(handshake, startCallback) ==
    handshake /\ startCallback # Undefined

\* the message listener, lines 36-71, on frame `data`, run in a page whose
\* global scope defines the names in `globals`
onMessage(data, globals) ==
    /\ _io = "open"
    /\ LET handshake == isHandshake(_initDone, data)
           lookup == IF handshake THEN lookupOf(data.ncmds)
                     ELSE _networkCommandsLookup
           index == IF handshake
                    THEN fillReverse(_networkCommandsIndex, data.ncmds, 1)
                    ELSE _networkCommandsIndex
           \* lines 57-58
           commands ==
               IF handshake
               THEN define(define(_networkCommands, lookup, IgeRequest, "_onRequest"),
                           lookup, IgeResponse, "_onResponse")
               ELSE _networkCommands
           logged ==
               IF handshake
               THEN defineLog(lookup, IgeRequest, "_onRequest")
                      \o defineLog(lookup, IgeResponse, "_onResponse")
                      \o <<"info">>
               ELSE << >>
           \* lines 63-66
           ready == startCallbackFires(handshake, _startCallback)
           e == _onMessageFromServer(data.idx, data.payload, index, commands,
                                     _requests, globals)
           invoked ==
               (IF ready THEN << Invocation(_startCallback, "window", NoPayload, << >>) >>
                ELSE << >>) \o e.invoked
       IN  /\ _initDone' = (_initDone \/ handshake)
           /\ _networkCommandsLookup' = lookup
           /\ _networkCommandsIndex' = index
           /\ _networkCommands' = commands
           /\ _startCallback' = IF ready THEN Undefined ELSE _startCallback
           /\ _requests' = e.requests
           /\ op' = [Call("message") EXCEPT !.name = data.cmd, !.ncmds = data.ncmds,
                                             !.idx = data.idx, !.payload = data.payload]
           /\ out' = [sent |-> << >>, emitted |-> e.emitted, invoked |-> invoked,
                      logged |-> logged, raised |-> e.raised]
           /\ fired' = [c \in Callbacks |->
                          fired[c] + Cardinality({k \in DOMAIN invoked : invoked[k].fn = c})]
           /\ declared' = IF declared = << >> /\ data.cmd = "init"
                          THEN data.ncmds ELSE declared
           /\ inbound' = IF _initDone /\ commandNameOf(index, data.idx) = IgeRequest
                         THEN Put(inbound, data.payload.id, data.payload.cmd)
                         ELSE inbound
           /\ issued' = issued \cap DOMAIN e.requests
    /\ UNCHANGED <<_idCounter, _io>>

\* the connect listener, lines 31-33 and _onConnectToServer, lines 223-226
onConnect ==
    /\ _io = "open"
    /\ op' = Call("connect")
    /\ out' = [NoOut EXCEPT !.logged = <<"info">>,
                            !.emitted = << Event("connected", NoPayload) >>]
    /\ UNCHANGED <<_initDone, _idCounter, _requests, _startCallback, _io,
                   _networkCommandsLookup, _networkCommandsIndex, _networkCommands,
                   fired, declared, issued, inbound>>

\* the disconnect listener, lines 74-76 and _onDisconnectFromServer,
\* lines 248-255
onDisconnect(reason) ==
    /\ _io = "open"
    /\ op' = [Call("disconnect") EXCEPT !.name = reason]
    /\ out' = [NoOut EXCEPT !.logged = IF reason = "booted" THEN <<"warning">>
                                       ELSE <<"info">>,
                            !.emitted = << Event("disconnected", NoPayload) >>]
    /\ UNCHANGED <<_initDone, _idCounter, _requests, _startCallback, _io,
                   _networkCommandsLookup, _networkCommandsIndex, _networkCommands,
                   fired, declared, issued, inbound>>

\* the error listener, lines 79-81 and _onError, lines 262-264
onError ==
    /\ _io = "open"
    /\ op' = Call("error")
    /\ out' = [NoOut EXCEPT !.logged = <<"error">>]
    /\ UNCHANGED <<_initDone, _idCounter, _requests, _startCallback, _io,
                   _networkCommandsLookup, _networkCommandsIndex, _networkCommands,
                   fired, declared, issued, inbound>>

----------------------------------------------------------------------------
(* The public methods, called by the application *)

\* a call define(commandName, callback), lines 95-108
callDefine(commandName, callback) ==
    /\ _networkCommands' =
           define(_networkCommands, _networkCommandsLookup, commandName, callback)
    /\ op' = [Call("define") EXCEPT !.name = commandName, !.cb = callback]
    /\ out' = [NoOut EXCEPT
                 !.logged = defineLog(_networkCommandsLookup, commandName, callback)]
    /\ UNCHANGED <<_initDone, _idCounter, _requests, _startCallback, _io,
                   _networkCommandsLookup, _networkCommandsIndex, fired,
                   declared, issued, inbound>>

\* a call send(commandName, data), lines 116-124
callSend(commandName, data) ==
    /\ op' = [Call("send") EXCEPT !.name = commandName, !.payload = data]
    /\ out' = [NoOut EXCEPT
                 !.sent = send(_networkCommandsLookup, commandName, data),
                 !.logged = sendLog(_networkCommandsLookup, commandName)]
    /\ UNCHANGED <<_initDone, _idCounter, _requests, _startCallback, _io,
                   _networkCommandsLookup, _networkCommandsIndex, _networkCommands,
                   fired, declared, issued, inbound>>

\* an envelope that leaves the id of the request out
requestEnvelopeNoId(id, commandName, data) == Payload(Undefined, commandName, data)

\* lines 149-153: the envelope of the request stored under `id`
requestEnvelope(id, commandName, data) == Payload(id, commandName, data)

\* a call request(commandName, data, callback), lines 133-155, in which the
\* random draws of newIdHex add up to `rand`
callRequest(commandName, data, callback, rand) ==
    /\ _idCounter < MaxRequests
    /\ LET id == newIdHex(_idCounter, rand)
       IN  /\ _idCounter' = _idCounter + 1
           /\ _requests' = Put(_requests, id,
                                RequestObject(id, commandName, data, callback))
           /\ op' = [Call("request") EXCEPT !.name = commandName, !.id = id,
                         !.cb = callback, !.payload = Payload(id, commandName, data)]
           /\ out' = [NoOut EXCEPT
                        !.sent = send(_networkCommandsLookup, IgeRequest,
                                      requestEnvelope(id, commandName, data)),
                        !.logged = sendLog(_networkCommandsLookup, IgeRequest)]
           /\ issued' = IF _initDone THEN issued \cup {id} ELSE issued \ {id}
    /\ UNCHANGED <<_initDone, _startCallback, _io, _networkCommandsLookup,
                   _networkCommandsIndex, _networkCommands, fired,
                   declared, inbound>>

\* req.commandName at line 172: no request object has a property of that
\* name (request() and the server both write cmd)
commandNameProperty(req) == Undefined

\* a call response(requestId, data), lines 162-180
callResponse(requestId, data) ==
    /\ LET found == requestId \in DOMAIN _requests
           envelope == Payload(requestId, commandNameProperty(_requests[requestId]), data)
       IN  /\ _requests' = IF found THEN Delete(_requests, requestId) ELSE _requests
           /\ op' = [Call("response") EXCEPT !.id = requestId,
                         !.payload = Payload(requestId, Undefined, data)]
           /\ out' = IF found
                     THEN [NoOut EXCEPT
                             !.sent = send(_networkCommandsLookup, IgeResponse, envelope),
                             !.logged = sendLog(_networkCommandsLookup, IgeResponse)]
                     ELSE NoOut
           /\ issued' = issued \ {requestId}
           /\ inbound' = Delete(inbound, requestId)
    /\ UNCHANGED <<_initDone, _idCounter, _startCallback, _io,
                   _networkCommandsLookup, _networkCommandsIndex, _networkCommands,
                   fired, declared>>

----------------------------------------------------------------------------
(* The specification *)

Next ==
    \/ \E callback \in {OnReady, Undefined}, webSocket \in BOOLEAN :
          start(callback, webSocket)
    \/ \E n \in NcmdsChoices, globals \in Pages : onMessage(InitFrame(n), globals)
    \/ \E data \in OrdinaryFrames, globals \in Pages : onMessage(data, globals)
    \/ onConnect
    \/ \E reason \in {"booted", "closed"} : onDisconnect(reason)
    \/ onError
    \/ \E c \in DefineCalls : callDefine(c[1], c[2])
    \/ \E commandName \in CommandNames : callSend(commandName, PlainPayload)
    \/ \E rand \in RandomSums :
          callRequest("chat", "hi", Continuation(_idCounter + 1), rand)
    \/ \E requestId \in WireIds : callResponse(requestId, "ok")

Spec == Init /\ [][Next]_vars

----------------------------------------------------------------------------
(* Vocabulary of the properties *)

\* the fields of the client
clientState == <<_initDone, _idCounter, _requests, _startCallback, _io,
                 _networkCommandsLookup, _networkCommandsIndex, _networkCommands>>

\* the CommandTable of the handshake: name n was declared by the first init
\* frame, and the index that frame gave it
Declared(n) == \E k \in DOMAIN declared : declared[k][1] = n
DeclaredIndex(n) == declared[CHOOSE k \in DOMAIN declared : declared[k][1] = n][2]

\* how many entries of the sequence s are in the set S
Count(s, S) == Cardinality({k \in DOMAIN s : s[k] \in S})

\* the invocations of callback or handler f among the invocations s
InvocationsOf(s, f) == Cardinality({k \in DOMAIN s : s[k].fn = f})

\* the step just taken (op') delivered a frame of the reserved command n
\* after the handshake
DeliversReserved(n) ==
    /\ op'.fn = "message"
    /\ _initDone
    /\ commandNameOf(_networkCommandsIndex, op'.idx) = n

----------------------------------------------------------------------------
(* C1 - C10 *)

\* C1: for every request issued with request() after the handshake, the
\* arrival of a response frame carrying its id invokes that request's
\* continuation exactly once and leaves no pending entry for the id; no
\* continuation is ever invoked a second time.
C1_ResponseCompletesRequest ==
    [][ /\ (DeliversReserved(IgeResponse) /\ op'.payload.id \in issued)
            => /\ InvocationsOf(out'.invoked, _requests[op'.payload.id].callback) = 1
               /\ op'.payload.id \notin DOMAIN _requests'
        /\ \A c \in Continuations : fired'[c] <= 1 ]_vars

\* C2: a response frame whose id is not pending (never issued, or already
\* completed) has no observable effect: no continuation is invoked, the
\* pending map, the CommandTable and the HandlerTable are unchanged, nothing
\* is transmitted and no error is raised.
C2_UnknownResponseIgnored ==
    [][ (DeliversReserved(IgeResponse) /\ op'.payload.id \notin DOMAIN _requests)
        => /\ out'.raised = "none"
           /\ out'.sent = << >>
           /\ \A c \in Continuations : InvocationsOf(out'.invoked, c) = 0
           /\ UNCHANGED <<_requests, _networkCommandsLookup, _networkCommandsIndex,
                          _networkCommands>> ]_vars

\* C3: send(name, data) transmits exactly the frame [index(name), data] when
\* the handshake declared name, and otherwise (name undeclared, or no
\* handshake yet) transmits nothing; it raises nothing and changes no field
\* of the client.
C3_SendTransmitsDeclared ==
    [][ op'.fn = "send"
        => /\ out'.raised = "none"
           /\ UNCHANGED clientState
           /\ out'.sent = IF _initDone /\ Declared(op'.name)
                          THEN << Frame(DeclaredIndex(op'.name), op'.payload) >>
                          ELSE << >> ]_vars

\* a declared command has been sent after the handshake
C3_Witness ==
    /\ op.fn = "send"
    /\ _initDone
    /\ Declared(op.name)
    /\ out.sent = << Frame(DeclaredIndex(op.name), PlainPayload) >>

\* C4: define(name, handler) binds handler to name exactly when both
\* arguments are present and the handshake declared name; in every other
\* case the HandlerTable is unchanged; no exception is raised.
C4_DefineBindsDeclared ==
    [][ op'.fn = "define"
        => /\ out'.raised = "none"
           /\ _networkCommands' =
                 IF /\ op'.name # Undefined
                    /\ op'.cb # Undefined
                    /\ _initDone
                    /\ Declared(op'.name)
                 THEN Put(_networkCommands, op'.name, op'.cb)
                 ELSE _networkCommands ]_vars

\* a handler has been bound to a declared command
C4_Witness ==
    /\ op.fn = "define"
    /\ op.cb \in UserHandlers
    /\ Declared(op.name)
    /\ op.name \in DOMAIN _networkCommands
    /\ _networkCommands[op.name] = op.cb

\* C5: the callback given to start() is invoked exactly once, by the first
\* init frame, and by no other step, whatever frames follow.
C5_OnReadyOnce ==
    [][ /\ fired'[OnReady] <= 1
        /\ (fired'[OnReady] # fired[OnReady])
              => (op'.fn = "message" /\ op'.name = "init" /\ declared = << >>)
        /\ (/\ op'.fn = "message"
            /\ op'.name = "init"
            /\ declared = << >>
            /\ _startCallback = OnReady)
              => (fired'[OnReady] = 1 /\ InvocationsOf(out'.invoked, OnReady) = 1) ]_vars

\* a further init frame has arrived after the callback was invoked, and did
\* not invoke it
C5_Witness ==
    /\ fired[OnReady] = 1
    /\ op.fn = "message"
    /\ op.name = "init"
    /\ InvocationsOf(out.invoked, OnReady) = 0

\* C6: once the handshake has completed no step changes the name-to-index
\* mapping or the index-to-name reverse index.
C6_CommandTableImmutable ==
    [][ _initDone => UNCHANGED <<_networkCommandsLookup, _networkCommandsIndex>> ]_vars

\* an init frame with another mapping has arrived after the handshake
C6_Witness ==
    /\ _initDone
    /\ op.fn = "message"
    /\ op.name = "init"
    /\ op.ncmds # declared
    /\ \A n \in DOMAIN _networkCommandsLookup :
          Declared(n) /\ _networkCommandsLookup[n] = DeclaredIndex(n)

C8_ResponseAnswersInbound ==
    [][ op'.fn = "response"
        => /\ op'.id \in DOMAIN inbound
                => /\ Len(out'.sent) = 1
                   /\ out'.sent[1] = Frame(DeclaredIndex(IgeResponse),
                                           Payload(op'.id, inbound[op'.id],
                                                   op'.payload.data))
                   /\ op'.id \notin DOMAIN _requests'
           /\ (op'.id \notin DOMAIN inbound /\ op'.id \notin DOMAIN _requests)
                => (out'.sent = << >> /\ UNCHANGED clientState) ]_vars

\* C9: every _igeRequest frame received after the handshake is stored as a
\* tracked request under its id and surfaced as an event named after the
\* envelope's cmd that carries (id, data).
C9_InboundRequestTracked ==
    [][ DeliversReserved(IgeRequest)
        => /\ op'.payload.id \in DOMAIN _requests'
           /\ _requests'[op'.payload.id].cmd = op'.payload.cmd
           /\ Count(out'.emitted,
                    {Event(op'.payload.cmd,
                           Payload(op'.payload.id, Undefined, op'.payload.data))}) = 1 ]_vars

\* C10: for every frame [index, payload] whose index is in the reverse
\* index, the handler bound to the resolved name, if any, is invoked exactly
\* once with payload, and the event named after the command is emitted
\* exactly once with payload, bound handler or not.
C10_FrameDispatched ==
    [][ (op'.fn = "message" /\ op'.idx \in DOMAIN _networkCommandsIndex')
        => LET name == _networkCommandsIndex'[op'.idx]
           IN  /\ name \in DOMAIN _networkCommands'
                     => Count(out'.invoked,
                              {Invocation(_networkCommands'[name], t, op'.payload, << >>) :
                                 t \in {"client", "table"}}) = 1
               /\ Count(out'.emitted, {Event(name, op'.payload)}) = 1 ]_vars

----------------------------------------------------------------------------
(* C11 - C20 *)

\* C11: a frame whose index is not in the reverse index is dropped: no
\* handler is invoked, no event is emitted, nothing is transmitted, no field
\* of the client changes and no error is raised.  (The init frame that
\* performs the handshake is not such a frame.)
C11_UnknownIndexDropped ==
    [][ (/\ op'.fn = "message"
         /\ op'.idx \notin DOMAIN _networkCommandsIndex
         /\ ~(~_initDone /\ op'.name = "init"))
        => /\ out'.invoked = << >>
           /\ out'.emitted = << >>
           /\ out'.sent = << >>
           /\ out'.raised = "none"
           /\ UNCHANGED clientState ]_vars

\* C12: when a frame of _igeResponse carries the id of a pending request,
\* the continuation stored for that request is invoked with the frame's data
\* as its argument: {id: X, data: "ok"} makes the call continuation("ok").
C12_ContinuationGetsData ==
    [][ (/\ DeliversReserved(IgeResponse)
         /\ op'.payload.id \in DOMAIN _requests
         /\ _requests[op'.payload.id].callback \in Continuations)
        => \E k \in DOMAIN out'.invoked :
              /\ out'.invoked[k].fn = _requests[op'.payload.id].callback
              /\ out'.invoked[k].args = << op'.payload.data >> ]_vars

\* C13 as claimed: in every state where the handshake is marked complete,
\* handlers for both _igeRequest and _igeResponse are bound in the handler
\* table, whatever init frame the server has sent.
C13_ReservedAlwaysBound ==
    _initDone => {IgeRequest, IgeResponse} \subseteq DOMAIN _networkCommands

\* C13: in every state where the handshake is marked complete, each of
\* _igeRequest and _igeResponse has a handler bound in the handler table
\* exactly when the init frame declared it, and no handler is bound for
\* either before the handshake.
C13_ReservedBoundWhenDeclared ==
    \A r \in {IgeRequest, IgeResponse} :
        /\ _initDone => (r \in DOMAIN _networkCommands <=> Declared(r))
        /\ ~_initDone => r \notin DOMAIN _networkCommands

\* the handshake has just completed with an init frame that declares both
\* reserved commands, and the two handlers of the client are bound
C13_Witness ==
    /\ op.fn = "message"
    /\ op.name = "init"
    /\ _initDone
    /\ Declared(IgeRequest) /\ Declared(IgeResponse)
    /\ _networkCommands[IgeRequest] = "_onRequest"
    /\ _networkCommands[IgeResponse] = "_onResponse"

\* C14: the ids that newIdHex returns within one session are pairwise
\* distinct, so the id a request() call obtains is the id of no outstanding
\* request and the call overwrites no pending entry.
C14_IdsDistinct ==
    [][ op'.fn = "request"
        => /\ op'.id \notin DOMAIN _requests
           /\ \A i \in DOMAIN _requests : _requests'[i] = _requests[i] ]_vars

\* C15: in every reachable state every command name with a bound handler is
\* in the command table, and every frame the last operation has transmitted
\* carries an index that the command table gives to a declared command;
\* hence before the handshake no handler is bound and no frame is
\* transmitted.  (The command table never changes after the handshake, so
\* the frames of the last operation stand for all frames transmitted.)
C15_BoundAndSentAreDeclared ==
    /\ \A n \in DOMAIN _networkCommands :
          n \in DOMAIN _networkCommandsLookup /\ Declared(n)
    /\ \A k \in DOMAIN out.sent :
          \E n \in DOMAIN _networkCommandsLookup :
             /\ Declared(n)
             /\ out.sent[k].index = _networkCommandsLookup[n]
    /\ ~_initDone => (_networkCommands = Empty /\ out.sent = << >>)

\* response() has just transmitted a frame, while a handler defined by the
\* user is bound
C15_Witness ==
    /\ _initDone
    /\ op.fn = "response"
    /\ Len(out.sent) = 1
    /\ "move" \in DOMAIN _networkCommands

\* C16: no handler is invoked for a frame that arrives before the handshake
\* has completed: as long as no init frame has been processed nothing has
\* been invoked by the last operation, the command table and the reverse
\* index are empty and the handshake is not marked complete; so a frame
\* other than the init frame neither fills the tables nor completes the
\* handshake, and the first handler invocation comes after the init frame.
C16_NoDispatchBeforeHandshake ==
    /\ _initDone => declared # << >>
    /\ declared = << >>
         => /\ out.invoked = << >>
            /\ _networkCommandsLookup = Empty
            /\ _networkCommandsIndex = Empty
            /\ _networkCommands = Empty

\* a frame [index, payload] has arrived on the open socket before any init
\* frame
C16_Witness ==
    /\ op.fn = "message"
    /\ op.idx \in FrameIndices
    /\ declared = << >>
    /\ ~_initDone
    /\ out.invoked = << >>

\* C17: requests of the two directions do not interfere: a frame of
\* _igeRequest whose id is that of an outstanding request of the client
\* leaves the stored request and its continuation as they are, and
\* response(id, data) with the id of a request the client issued itself and
\* did not receive transmits nothing and leaves the pending entry in place.
C17_DirectionsDoNotInterfere ==
    [][ /\ (/\ DeliversReserved(IgeRequest)
            /\ op'.payload.id \in DOMAIN _requests
            /\ _requests[op'.payload.id].callback \in Continuations)
           => /\ op'.payload.id \in DOMAIN _requests'
              /\ _requests'[op'.payload.id] = _requests[op'.payload.id]
        /\ (/\ op'.fn = "response"
            /\ op'.id \in DOMAIN _requests
            /\ _requests[op'.id].callback \in Continuations
            /\ op'.id \notin DOMAIN inbound)
           => /\ out'.sent = << >>
              /\ op'.id \in DOMAIN _requests'
              /\ _requests'[op'.id] = _requests[op'.id] ]_vars

\* the step is one of the operations C18 lists: send, define, request,
\* connect, disconnect, error, or a frame that is not one of _igeRequest or
\* _igeResponse (an init frame, repeated or not, included)
C18_Listed ==
    \/ op'.fn \in {"send", "define", "request", "connect", "disconnect", "error"}
    \/ /\ op'.fn = "message"
       /\ commandNameOf(_networkCommandsIndex', op'.idx) \notin {IgeRequest, IgeResponse}

\* C18: a pending entry created by request() stays in the map with its
\* continuation unchanged until a response frame with its id arrives: send,
\* define, further request() calls, frames of other commands, init frames,
\* disconnect and error events all leave it as it is.
C18_PendingEntryStays ==
    [][ C18_Listed
        => \A i \in DOMAIN _requests :
              _requests[i].callback \in Continuations
              => i \in DOMAIN _requests' /\ _requests'[i] = _requests[i] ]_vars

\* the init frame gave no index to two names
IndicesDistinct(ncmds) ==
    \A j, k \in DOMAIN ncmds : ncmds[j][2] = ncmds[k][2] => j = k

\* the reverse index takes the index of every declared name back to the name
ReverseInvertsLookup ==
    \A n \in DOMAIN _networkCommandsLookup :
        /\ _networkCommandsLookup[n] \in DOMAIN _networkCommandsIndex
        /\ _networkCommandsIndex[_networkCommandsLookup[n]] = n

\* the last operation was the arrival of the frame [index(n), payload], and
\* it called the handler bound to n, if there is one, and no other handler
DispatchedOnlyTo(n) ==
    (op.fn = "message" /\ op.idx = _networkCommandsLookup[n])
    => /\ \A k \in DOMAIN out.invoked :
             /\ n \in DOMAIN _networkCommands
             /\ out.invoked[k].fn = _networkCommands[n]
       /\ n \in DOMAIN _networkCommands => out.invoked # << >>

\* C19 as claimed: after the handshake the reverse index is the inverse of
\* the mapping from names to indices, for every name the init frame
\* declared, and the frame [index(n), payload] goes to the handler of n only.
C19_ReverseIsInverse ==
    _initDone
    => /\ ReverseInvertsLookup
       /\ \A n \in DOMAIN _networkCommandsLookup : DispatchedOnlyTo(n)

\* C19: after a handshake whose init frame gave pairwise distinct indices to
\* the names it declared, the reverse index is the inverse of the mapping
\* from names to indices, and the frame [index(n), payload] goes to the
\* handler bound to n and to no other.
C19_ReverseIsInverseWhenDistinct ==
    (_initDone /\ IndicesDistinct(declared))
    => /\ ReverseInvertsLookup
       /\ \A n \in DOMAIN _networkCommandsLookup : DispatchedOnlyTo(n)

\* after a handshake with distinct indices the frame [index(move), payload]
\* has arrived and the handler defined for move has been called
C19_Witness ==
    /\ _initDone
    /\ IndicesDistinct(declared)
    /\ op.fn = "message"
    /\ "move" \in DOMAIN _networkCommands
    /\ op.idx = _networkCommandsLookup["move"]
    /\ Len(out.invoked) = 1
    /\ out.invoked[1].fn = _networkCommands["move"]

\* C20: every entry of the pending map belongs to a request envelope that
\* was transmitted with its id: a request() call that transmits nothing
\* (the handshake is not complete, or _igeRequest is not declared) leaves no
\* entry stored, that is, the map is as it was before the call.
C20_NoEntryWithoutEnvelope ==
    [][ (op'.fn = "request" /\ out'.sent = << >>)
        => /\ op'.id \notin DOMAIN _requests'
           /\ _requests' = _requests ]_vars

====
